---- MODULE Spec2Model ----
(***************************************************************************)
(* A model of the sports-talent-assessment platform: the client-side       *)
(* GestureRecorder component (pose-rule checking, violation counting,      *)
(* auto-stop) and the Express backend (auth middleware, registration, OTP  *)
(* password reset, upload, verification, moderation, nearby discovery).    *)
(***************************************************************************)
EXTENDS Integers, Sequences, FiniteSets, TLC

(***************************************************************************)
(* Bounds of the model.                                                    *)
(***************************************************************************)
MaxAttempts == 2
MaxFrames == 4

(***************************************************************************)
(*                     PART I  -  GestureRecorder.js                       *)
(***************************************************************************)
VARIABLES
  sport,          \* the `sport` prop of the component
  currentRules,   \* useState([]): the active rule set, a sequence of rule names
  isRecording,    \* useState(false)
  violations,     \* useState(0)
  attempts,       \* useState(0)
  recorder,       \* mediaRecorderRef.current: "none", "recording" or "inactive"
  cb,             \* the state captured by the onPoseResults closure that is
                  \* registered with pose.onResults
  violationCalls, \* the (ruleName, count) pairs passed to onViolation in this attempt
  detected,       \* number of rule checks that returned true in this attempt
  checked,        \* number of frames checkGestureRules ran on in this attempt
  stopCause,      \* dueToViolations of the last stopRecording call that stopped
                  \* the recorder: "none", "manual" or "violations"
  frames          \* number of pose frames delivered so far

gvars == <<sport, currentRules, isRecording, violations, attempts, recorder, cb,
           violationCalls, detected, checked, stopCause, frames>>

\* handleViolation stops the recording at this many violations
ViolationLimit == 3

Sports == {"athletics", "football", "basketball", "swimming"}

(***************************************************************************)
(* Pose landmarks.  MediaPipe gives normalised coordinates in [0,1]; the   *)
(* model keeps them in tenths, so the 0.1 of checkKneeLift is one unit.    *)
(* Only the landmarks the rule checks read are kept.                       *)
(***************************************************************************)
LEFT_SHOULDER == 11
RIGHT_SHOULDER == 12
LEFT_ELBOW == 13
LEFT_WRIST == 15
LEFT_HIP == 23
RIGHT_HIP == 24
LEFT_KNEE == 25
RIGHT_KNEE == 26

Pt(px, py) == [x |-> px, y |-> py]

Landmarks(ls, rs, le, lw, lh, rh, lk, rk) ==
  (LEFT_SHOULDER :> ls) @@ (RIGHT_SHOULDER :> rs) @@ (LEFT_ELBOW :> le) @@
  (LEFT_WRIST :> lw) @@ (LEFT_HIP :> lh) @@ (RIGHT_HIP :> rh) @@
  (LEFT_KNEE :> lk) @@ (RIGHT_KNEE :> rk)

\* torso level and forward, forearm forward, left knee lifted: no rule violated
PoseCrouch ==
  Landmarks(Pt(6,5), Pt(6,5), Pt(6,6), Pt(7,6), Pt(4,5), Pt(4,5), Pt(4,4), Pt(4,6))
\* standing upright, arm hanging, knees below the hips: all three sprint rules violated
PoseStanding ==
  Landmarks(Pt(5,3), Pt(5,3), Pt(5,4), Pt(5,5), Pt(5,6), Pt(5,6), Pt(5,8), Pt(5,8))
\* upright torso only
PoseUpright ==
  Landmarks(Pt(5,3), Pt(5,3), Pt(6,6), Pt(7,6), Pt(5,6), Pt(5,6), Pt(4,5), Pt(4,7))
\* forearm pointing backwards only
PoseArmBack ==
  Landmarks(Pt(6,5), Pt(6,5), Pt(6,6), Pt(5,6), Pt(4,5), Pt(4,5), Pt(4,4), Pt(4,6))
\* knees not lifted only
PoseLowKnees ==
  Landmarks(Pt(6,5), Pt(6,5), Pt(6,6), Pt(7,6), Pt(4,5), Pt(4,5), Pt(4,5), Pt(4,6))
\* forearm backwards and knees not lifted
PoseArmAndKnees ==
  Landmarks(Pt(6,5), Pt(6,5), Pt(6,6), Pt(5,7), Pt(4,5), Pt(4,5), Pt(4,6), Pt(4,6))

Poses == {PoseCrouch, PoseStanding, PoseUpright, PoseArmBack, PoseLowKnees,
          PoseArmAndKnees}

\* the results of a frame: poseLandmarks is missing when no pose was detected
PoseResults ==
  {[hasLandmarks |-> FALSE, poseLandmarks |-> PoseCrouch]}
    \cup {[hasLandmarks |-> TRUE, poseLandmarks |-> p] : p \in Poses}

Abs(n) == IF n < 0 THEN -n ELSE n

Max(a, b) == IF a >= b THEN a ELSE b

\* Math.atan2(dy, dx) * 180 / Math.PI > 10, decided exactly on integers
\* (tan 10 deg = 0.17632698...; atan2(0, 0) = 0)
AngleAbove10(dy, dx) ==
  /\ ~(dx = 0 /\ dy = 0)
  /\ dy > 0
  /\ (dx <= 0 \/ dy * 100000 > 17633 * dx)

\* Math.atan2(dy, dx) * 180 / Math.PI < -30 (tan 30 deg = 0.57735026...)
AngleBelowMinus30(dy, dx) ==
  /\ ~(dx = 0 /\ dy = 0)
  /\ dy < 0
  /\ (dx <= 0 \/ (-dy) * 100000 > 57735 * dx)

\* Math.abs(Math.atan2(dy, dx) * 180 / Math.PI) > 45
AbsAngleAbove45(dy, dx) ==
  /\ ~(dx = 0 /\ dy = 0)
  /\ (dx <= 0 \/ Abs(dy) > dx)

\* The midpoints divide both differences by 2, which leaves the angle unchanged.
checkSprintStance(landmarks) ==
  LET dy == (landmarks[LEFT_SHOULDER].y + landmarks[RIGHT_SHOULDER].y)
              - (landmarks[LEFT_HIP].y + landmarks[RIGHT_HIP].y)
      dx == (landmarks[LEFT_SHOULDER].x + landmarks[RIGHT_SHOULDER].x)
              - (landmarks[LEFT_HIP].x + landmarks[RIGHT_HIP].x)
  IN AngleAbove10(dy, dx) \/ AngleBelowMinus30(dy, dx)

checkArmSwing(landmarks) ==
  AbsAngleAbove45(landmarks[LEFT_WRIST].y - landmarks[LEFT_ELBOW].y,
                  landmarks[LEFT_WRIST].x - landmarks[LEFT_ELBOW].x)

checkKneeLift(landmarks) ==
  LET leftKneeHeight == landmarks[LEFT_HIP].y - landmarks[LEFT_KNEE].y
      rightKneeHeight == landmarks[RIGHT_HIP].y - landmarks[RIGHT_KNEE].y
  IN Max(leftKneeHeight, rightKneeHeight) < 1

checkApproachAngle(landmarks) == FALSE

checkTakeoffPosition(landmarks) == FALSE

checkBallControlAlways(landmarks) == TRUE

checkBallControl(landmarks) == FALSE

checkBodyPosition(landmarks) == FALSE

checkShootingForm(landmarks) == FALSE

checkDribblingPosture(landmarks) == FALSE

\* rule.check(landmarks) for the rule of that name
RuleCheck(name, landmarks) ==
  CASE name = "proper_stance" -> checkSprintStance(landmarks)
    [] name = "arm_swing" -> checkArmSwing(landmarks)
    [] name = "knee_lift" -> checkKneeLift(landmarks)
    [] name = "approach_angle" -> checkApproachAngle(landmarks)
    [] name = "takeoff_position" -> checkTakeoffPosition(landmarks)
    [] name = "ball_control" -> checkBallControl(landmarks)
    [] name = "body_position" -> checkBodyPosition(landmarks)
    [] name = "shooting_form" -> checkShootingForm(landmarks)
    [] name = "dribbling_posture" -> checkDribblingPosture(landmarks)

\* the sportRules table: a rule list per sport, or a record of rule lists by
\* category (athletics)
sportRules ==
  [athletics |-> [sprint |-> <<"proper_stance", "arm_swing", "knee_lift">>,
                  long_jump |-> <<"approach_angle", "takeoff_position">>],
   football |-> <<"ball_control", "body_position">>,
   basketball |-> <<"shooting_form", "dribbling_posture">>]

\* Array.isArray(sportRules[s]), for a sport that has an entry
IsArrayEntry(s) == s \in {"football", "basketball"}

\* the rule selection effect: the list setCurrentRules receives for a sport
SelectedRules(s) ==
  LET rules == IF s \in DOMAIN sportRules
               THEN IF IsArrayEntry(s) THEN sportRules[s]
                    ELSE IF "sprint" \in DOMAIN sportRules[s] THEN sportRules[s].sprint
                    ELSE <<>>
               ELSE <<>>
  IN IF Len(rules) = 0 THEN sportRules.athletics.sprint ELSE rules

(***************************************************************************)
(* The callbacks.  A callback reads the state of the render that created   *)
(* it (the closure c); its setState calls write the component state st.    *)
(***************************************************************************)
CompState ==
  [isRecording |-> isRecording, violations |-> violations, recorder |-> recorder,
   calls |-> violationCalls, detected |-> detected, checked |-> checked,
   stopCause |-> stopCause]

\* stopRecording as created by a render in which isRecording was closureIsRecording
stopRecording(st, closureIsRecording, dueToViolations) ==
  IF st.recorder # "none" /\ closureIsRecording
  THEN [st EXCEPT !.recorder = "inactive", !.isRecording = FALSE,
                  !.stopCause = IF dueToViolations THEN "violations" ELSE "manual"]
  ELSE st

StopsAbove(newViolations) == newViolations > ViolationLimit

StopsAt(newViolations) == newViolations >= ViolationLimit

\* handleViolation as created by the render captured in c
handleViolation(st, c, ruleName) ==
  LET newViolations == c.violations + 1
      st1 == [st EXCEPT !.violations = newViolations,
                        !.calls = Append(@, [rule |-> ruleName, count |-> newViolations])]
  IN IF StopsAt(newViolations) THEN stopRecording(st1, c.isRecording, TRUE) ELSE st1

\* checkGestureRules: currentRules.forEach over the rules captured in c
RECURSIVE checkGestureRules(_, _, _, _)
checkGestureRules(rules, landmarks, st, c) ==
  IF rules = <<>> THEN st
  ELSE LET isViolation == RuleCheck(Head(rules), landmarks)
           st1 == IF isViolation
                  THEN handleViolation([st EXCEPT !.detected = @ + 1], c, Head(rules))
                  ELSE st
       IN checkGestureRules(Tail(rules), landmarks, st1, c)

\* onPoseResults as registered with pose.onResults
onPoseResults(results, st, c) ==
  IF ~results.hasLandmarks THEN st
  ELSE IF c.isRecording /\ Len(c.rules) > 0
       THEN checkGestureRules(c.rules, results.poseLandmarks,
                              [st EXCEPT !.checked = @ + 1], c)
       ELSE st

\* the state the callbacks of the current render capture
Closure ==
  [registered |-> TRUE, isRecording |-> isRecording, violations |-> violations,
   rules |-> currentRules]

\* before the first pose instance is created no callback is registered
NoClosure ==
  [registered |-> FALSE, isRecording |-> FALSE, violations |-> 0, rules |-> <<>>]

GInit ==
  /\ sport \in Sports
  /\ currentRules = <<>>
  /\ isRecording = FALSE
  /\ violations = 0
  /\ attempts = 0
  /\ recorder = "none"
  /\ cb = NoClosure
  /\ violationCalls = <<>>
  /\ detected = 0
  /\ checked = 0
  /\ stopCause = "none"
  /\ frames = 0

\* useEffect([sport, sportRules]): setCurrentRules
RuleSelectionEffect ==
  /\ currentRules # SelectedRules(sport)
  /\ currentRules' = SelectedRules(sport)
  /\ UNCHANGED <<sport, isRecording, violations, attempts, recorder, cb,
                 violationCalls, detected, checked, stopCause, frames>>

\* useEffect([initializeMediaPipeCallback, cleanup]): after a render that changed
\* onPoseResults the pose instance is closed and a new one registers the new closure
RegisterPose ==
  /\ cb # Closure
  /\ cb' = Closure
  /\ UNCHANGED <<sport, currentRules, isRecording, violations, attempts, recorder,
                 violationCalls, detected, checked, stopCause, frames>>

\* the Start Recording button (rendered when not recording, disabled at the limit)
startRecording ==
  /\ ~isRecording
  /\ ~(violations >= ViolationLimit)
  /\ attempts < MaxAttempts
  /\ recorder' = "recording"
  /\ violations' = 0
  /\ attempts' = attempts + 1
  /\ isRecording' = TRUE
  /\ violationCalls' = <<>>
  /\ detected' = 0
  /\ checked' = 0
  /\ stopCause' = "none"
  /\ UNCHANGED <<sport, currentRules, cb, frames>>

\* the Stop Recording button (rendered while recording): stopRecording(false)
StopClick ==
  /\ isRecording
  /\ LET st == stopRecording(CompState, isRecording, FALSE)
     IN /\ isRecording' = st.isRecording
        /\ recorder' = st.recorder
        /\ stopCause' = st.stopCause
  /\ UNCHANGED <<sport, currentRules, violations, attempts, cb, violationCalls,
                 detected, checked, frames>>

\* MediaPipe delivers the results of one frame to the registered callback
PoseFrame ==
  /\ cb.registered
  /\ frames < MaxFrames
  /\ \E results \in PoseResults :
       LET st == onPoseResults(results, CompState, cb)
       IN /\ isRecording' = st.isRecording
          /\ violations' = st.violations
          /\ recorder' = st.recorder
          /\ violationCalls' = st.calls
          /\ detected' = st.detected
          /\ checked' = st.checked
          /\ stopCause' = st.stopCause
  /\ frames' = frames + 1
  /\ UNCHANGED <<sport, currentRules, attempts, cb>>

(***************************************************************************)
(* Properties of the GestureRecorder.                                      *)
(***************************************************************************)

C2_CountIsNumberDetected ==
  /\ violations = detected
  /\ \A i \in DOMAIN violationCalls : violationCalls[i].count = i

\* C3: with sport football or basketball no frame ever counts a violation,
\* calls onViolation or stops the recording.
C3_PlaceholderSportsNeverViolate ==
  sport \in {"football", "basketball"} =>
    /\ violations = 0
    /\ detected = 0
    /\ violationCalls = <<>>
    /\ stopCause # "violations"

\* a football recording on which the rules were checked on several frames
C3_Witness ==
  /\ sport = "football"
  /\ isRecording
  /\ currentRules = sportRules.football
  /\ checked >= 2


(***************************************************************************)
(*            PART II  -  accounts, auth middleware, auth routes           *)
(***************************************************************************)
VARIABLES
  acct,      \* the Athlete, Coach and Official collections: account by _id;
             \* role is the collection, "none" an unused _id
  now,       \* the server clock (new Date()), in ticks
  tokens,    \* payloads of the JWTs generateToken has signed
  inflight,  \* requests suspended at an await, by request slot
  otp,       \* the OTP collection (purpose 'password-reset'), by email
  otpDocs,   \* number of OTP documents inserted so far (their _id)
  issued,    \* per email, the most recent OTP issued and whether a verify-otp
             \* call with that code has succeeded since
  resp       \* the response of the last request that completed

avars == <<acct, now, tokens, inflight, otp, otpDocs, issued, resp>>

MaxAccounts == 3
MaxTime == 2
MaxOtpDocs == 2
MaxInflight == 2
MaxOtpInflight == 1

\* expiresAt = Date.now() + 10 * 60 * 1000; expiresIn '7d'.  The clock tick is
\* coarse: only the order of the two durations is kept.
OtpTtl == 1
TokenTtl == 2
\* verify-otp deletes the record at this many failed attempts
MaxOtpAttempts == 3

Ids == 1..MaxAccounts
Slots == 1..MaxInflight
\* the slots the password-reset routes may occupy
OtpSlots == 1..MaxOtpInflight
Roles == {"athlete", "coach", "sai_official"}
Emails == {"a@x.io", "b@x.io"}
RawEmails == {"a@x.io", "A@x.io", "b@x.io", "not-an-email"}
PlainPasswords == {"pw1", "pw2"}
Codes == {"111111", "222222"}

\* body('email').isEmail()
IsEmail(raw) == raw # "not-an-email"

\* normalizeEmail() and (email || '').trim().toLowerCase()
NormalizeEmail(raw) == IF raw = "A@x.io" THEN "a@x.io" ELSE raw

Plain(p) == [plain |-> p, rounds |-> 0]

\* bcrypt.hash: one more round of hashing over the value
Hash(v) == [v EXCEPT !.rounds = @ + 1]

\* bcrypt.compare(candidate, stored)
comparePassword(stored, candidate) == stored = Hash(Plain(candidate))

\* schema pre('save'): the password is hashed whenever it was modified
PreSave(doc, passwordModified) ==
  IF passwordModified THEN [doc EXCEPT !.password = Hash(@)] ELSE doc

NoAccount == [role |-> "none", email |-> "", password |-> Plain(""), isActive |-> FALSE]

Idle == [kind |-> "idle"]

NoOtp == [exists |-> FALSE, docId |-> 0, otp |-> "", expiresAt |-> 0,
          verified |-> FALSE, attempts |-> 0]

NotIssued == [has |-> FALSE, code |-> "", expiresAt |-> 0, verifiedSince |-> FALSE]

\* Model.findOne({ email }) in the collection of a role: the _id, or 0
FindOneByEmail(role, email) ==
  IF \E i \in Ids : acct[i].role = role /\ acct[i].email = email
  THEN CHOOSE i \in Ids : acct[i].role = role /\ acct[i].email = email
  ELSE 0

\* findAccountByEmail: athlete, then coach, then official
findAccountByEmail(email) ==
  LET ath == FindOneByEmail("athlete", email)
      coach == FindOneByEmail("coach", email)
      off == FindOneByEmail("sai_official", email)
  IN IF ath # 0 THEN ath ELSE IF coach # 0 THEN coach ELSE off

\* generateToken(userId, role)
generateToken(userId, role) == [userId |-> userId, role |-> role, exp |-> now + TokenTtl]

FreeIds == {i \in Ids : acct[i].role = "none"}

(***************************************************************************)
(* middleware/auth.js                                                      *)
(***************************************************************************)
\* Authorization headers: absent, another scheme, or Bearer with a token that
\* either fails jwt.verify or verifies with some payload (userId 0 and role ""
\* stand for a missing field)
AuthHeaders ==
  {[scheme |-> "none"], [scheme |-> "Basic"], [scheme |-> "Bearer", verifies |-> FALSE]}
    \cup {[scheme |-> "Bearer", verifies |-> TRUE, userId |-> u, role |-> r, exp |-> x] :
            u \in Ids \cup {0}, r \in Roles \cup {"", "admin"}, x \in {0, MaxTime + TokenTtl}}
    \cup {[scheme |-> "Bearer", verifies |-> TRUE, userId |-> t.userId, role |-> t.role,
           exp |-> t.exp] : t \in tokens}

\* Model.findById(userId) in the collection of the token's role
FindByIdInRole(userId, role) ==
  IF role \in Roles /\ userId \in Ids /\ acct[userId].role = role THEN userId ELSE 0

UserIsActiveAlways(user) == TRUE

\* !user.isActive
UserIsActive(user) == acct[user].isActive

\* the middleware calls next(), with req.user set
Pass(user, userType) == [next |-> TRUE, status |-> 0, user |-> user, userType |-> userType]

\* the middleware answers with a status and does not call next()
Deny(status) == [next |-> FALSE, status |-> status, user |-> 0, userType |-> ""]

\* auth
auth(header) ==
  IF header.scheme # "Bearer" THEN Deny(401)
  ELSE IF ~header.verifies THEN Deny(401)
  ELSE IF now > header.exp THEN Deny(401)
  ELSE IF header.userId = 0 \/ header.role = "" THEN Deny(401)
  ELSE LET user == FindByIdInRole(header.userId, header.role)
       IN IF user = 0 THEN Deny(401)
          ELSE IF ~UserIsActive(user) THEN Deny(401)
          ELSE Pass(user, header.role)

\* a string argument and an array argument of a call
Str(v) == [kind |-> "string", value |-> v]

Arr(items) == [kind |-> "array", items |-> items]

\* roles.includes(userType) on the rest parameter ...roles: an element that is
\* itself an array is not equal to any string
RolesInclude(roles, userType) ==
  \E i \in DOMAIN roles : roles[i].kind = "string" /\ roles[i].value = userType

\* authorize(...roles), for a request auth has let through (req.user is set)
authorize(roles, req) ==
  IF req.user = 0 THEN Deny(401)
  ELSE IF ~RolesInclude(roles, req.userType) THEN Deny(403)
  ELSE req

\* the chain auth, authorize(...) of a route: authorize runs when auth calls next()
AuthThenAuthorize(header, roles) ==
  IF auth(header).next THEN authorize(roles, auth(header)) ELSE auth(header)

(***************************************************************************)
(* routes/auth.js                                                          *)
(***************************************************************************)
\* POST /register up to the await of Model.create
RegisterBegin ==
  \E s \in Slots, raw \in RawEmails, pw \in PlainPasswords, userType \in Roles \cup {"admin"} :
    /\ inflight[s].kind = "idle"
    /\ IF ~IsEmail(raw) \/ userType \notin Roles
       THEN /\ resp' = [route |-> "register", status |-> 400, email |-> NormalizeEmail(raw),
                        existed |-> FALSE, created |-> 0]
            /\ UNCHANGED inflight
       ELSE LET normalizedEmail == NormalizeEmail(raw)
                existing == findAccountByEmail(normalizedEmail)
            IN IF existing # 0
               THEN /\ resp' = [route |-> "register", status |-> 400,
                                email |-> normalizedEmail, existed |-> TRUE, created |-> 0]
                    /\ UNCHANGED inflight
               ELSE /\ inflight' = [inflight EXCEPT ![s] =
                          [kind |-> "register", email |-> normalizedEmail,
                           userType |-> userType, password |-> pw]]
                    /\ UNCHANGED resp
    /\ UNCHANGED <<acct, now, tokens, otp, otpDocs, issued>>

\* POST /register from Model.create on: the unique index on email is per collection
RegisterFinish ==
  \E s \in Slots :
    /\ inflight[s].kind = "register"
    /\ LET r == inflight[s]
       IN IF FindOneByEmail(r.userType, r.email) # 0
          THEN /\ resp' = [route |-> "register", status |-> 400, email |-> r.email,
                           existed |-> FALSE, created |-> 0]
               /\ UNCHANGED <<acct, tokens>>
          ELSE /\ FreeIds # {}
               /\ LET id == CHOOSE i \in FreeIds : \A j \in FreeIds : i <= j
                      doc == PreSave([role |-> r.userType, email |-> r.email,
                                      password |-> Plain(r.password), isActive |-> TRUE], TRUE)
                  IN /\ acct' = [acct EXCEPT ![id] = doc]
                     /\ tokens' = tokens \cup {generateToken(id, r.userType)}
                     /\ resp' = [route |-> "register", status |-> 201, email |-> r.email,
                                 existed |-> FALSE, created |-> id]
    /\ inflight' = [inflight EXCEPT ![s] = Idle]
    /\ UNCHANGED <<now, otp, otpDocs, issued>>

\* OTP.findOneAndUpdate({email, purpose}, {otp, expiresAt, verified: false,
\* attempts: 0}, {upsert: true}): an existing document keeps its _id
UpsertOtp(email, code) ==
  IF otp[email].exists
  THEN [otp EXCEPT ![email] = [@ EXCEPT !.otp = code, !.expiresAt = now + OtpTtl,
                                        !.verified = FALSE, !.attempts = 0]]
  ELSE [otp EXCEPT ![email] = [exists |-> TRUE, docId |-> otpDocs + 1, otp |-> code,
                               expiresAt |-> now + OtpTtl, verified |-> FALSE,
                               attempts |-> 0]]

\* the body shared by POST /forgot-password and POST /resend-otp
IssueOtp(route, raw, code) ==
  IF ~IsEmail(raw)
  THEN /\ resp' = [route |-> route, status |-> 400]
       /\ UNCHANGED <<otp, otpDocs, issued>>
  ELSE LET normalizedEmail == NormalizeEmail(raw)
           existing == findAccountByEmail(normalizedEmail)
       IN IF existing = 0 \/ ~acct[existing].isActive
          THEN /\ resp' = [route |-> route, status |-> 404]
               /\ UNCHANGED <<otp, otpDocs, issued>>
          ELSE /\ otp[normalizedEmail].exists \/ otpDocs < MaxOtpDocs
               /\ otp' = UpsertOtp(normalizedEmail, code)
               /\ otpDocs' = IF otp[normalizedEmail].exists THEN otpDocs ELSE otpDocs + 1
               /\ issued' = [issued EXCEPT ![normalizedEmail] =
                     [has |-> TRUE, code |-> code, expiresAt |-> now + OtpTtl,
                      verifiedSince |-> FALSE]]
               /\ resp' = [route |-> route, status |-> 200]

\* POST /forgot-password
ForgotPassword ==
  \E raw \in RawEmails, code \in Codes :
    /\ IssueOtp("forgot-password", raw, code)
    /\ UNCHANGED <<acct, now, tokens, inflight>>

\* POST /resend-otp
ResendOtp ==
  \E raw \in RawEmails, code \in Codes :
    /\ IssueOtp("resend-otp", raw, code)
    /\ UNCHANGED <<acct, now, tokens, inflight>>

\* OTP.deleteOne({ email, purpose })
DeleteOtp(email) == [otp EXCEPT ![email] = NoOtp]

\* the document otpRecord.save() would update: the one with the loaded _id
SameOtpDoc(email, rec) == otp[email].exists /\ otp[email].docId = rec.docId

\* POST /verify-otp up to the result of OTP.findOne
VerifyOtpBegin ==
  \E s \in OtpSlots, raw \in RawEmails, code \in Codes :
    /\ inflight[s].kind = "idle"
    /\ IF ~IsEmail(raw)
       THEN /\ resp' = [route |-> "verify-otp", status |-> 400]
            /\ UNCHANGED inflight
       ELSE /\ inflight' = [inflight EXCEPT ![s] =
                  [kind |-> "verify", email |-> NormalizeEmail(raw), otp |-> code,
                   otpRecord |-> otp[NormalizeEmail(raw)]]]
            /\ UNCHANGED resp
    /\ UNCHANGED <<acct, now, tokens, otp, otpDocs, issued>>

\* POST /verify-otp from the loaded otpRecord on; save() writes the modified
\* path of the loaded document and fails when that document is gone
VerifyOtpFinish ==
  \E s \in Slots :
    /\ inflight[s].kind = "verify"
    /\ LET r == inflight[s]
           otpRecord == r.otpRecord
       IN IF ~otpRecord.exists
          THEN /\ resp' = [route |-> "verify-otp", status |-> 400]
               /\ UNCHANGED <<otp, issued>>
          ELSE IF now > otpRecord.expiresAt
          THEN /\ otp' = DeleteOtp(r.email)
               /\ resp' = [route |-> "verify-otp", status |-> 400]
               /\ UNCHANGED issued
          ELSE IF otpRecord.otp # r.otp
          THEN IF ~SameOtpDoc(r.email, otpRecord)
               THEN /\ resp' = [route |-> "verify-otp", status |-> 500]
                    /\ UNCHANGED <<otp, issued>>
               ELSE /\ otp' = IF otpRecord.attempts + 1 >= MaxOtpAttempts
                               THEN DeleteOtp(r.email)
                               ELSE [otp EXCEPT ![r.email].attempts = otpRecord.attempts + 1]
                    /\ resp' = [route |-> "verify-otp", status |-> 400]
                    /\ UNCHANGED issued
          ELSE IF ~SameOtpDoc(r.email, otpRecord)
               THEN /\ resp' = [route |-> "verify-otp", status |-> 500]
                    /\ UNCHANGED <<otp, issued>>
               ELSE /\ otp' = [otp EXCEPT ![r.email].verified = TRUE]
                    /\ resp' = [route |-> "verify-otp", status |-> 200]
                    /\ issued' = [issued EXCEPT ![r.email].verifiedSince =
                                     @ \/ (issued[r.email].has /\ issued[r.email].code = r.otp)]
    /\ inflight' = [inflight EXCEPT ![s] = Idle]
    /\ UNCHANGED <<acct, now, tokens, otpDocs>>

\* POST /reset-password up to the await of findAccountByEmail
ResetPasswordBegin ==
  \E s \in OtpSlots, raw \in RawEmails, code \in Codes, newPassword \in PlainPasswords :
    /\ inflight[s].kind = "idle"
    /\ IF ~IsEmail(raw)
       THEN /\ resp' = [route |-> "reset-password", status |-> 400]
            /\ UNCHANGED <<inflight, otp>>
       ELSE LET normalizedEmail == NormalizeEmail(raw)
                otpRecord == otp[normalizedEmail]
            IN IF ~otpRecord.exists \/ ~otpRecord.verified
               THEN /\ resp' = [route |-> "reset-password", status |-> 400]
                    /\ UNCHANGED <<inflight, otp>>
               ELSE IF otpRecord.otp # code
               THEN /\ resp' = [route |-> "reset-password", status |-> 400]
                    /\ UNCHANGED <<inflight, otp>>
               ELSE IF now > otpRecord.expiresAt
               THEN /\ otp' = DeleteOtp(normalizedEmail)
                    /\ resp' = [route |-> "reset-password", status |-> 400]
                    /\ UNCHANGED inflight
               ELSE /\ inflight' = [inflight EXCEPT ![s] =
                          [kind |-> "reset", email |-> normalizedEmail, otp |-> code,
                           newPassword |-> newPassword]]
                    /\ UNCHANGED <<resp, otp>>
    /\ UNCHANGED <<acct, now, tokens, otpDocs, issued>>

\* POST /reset-password from findAccountByEmail on: the route hashes the new
\* password, doc.save() runs the pre-save hook, then the OTP record is deleted
ResetPasswordFinish ==
  \E s \in Slots :
    /\ inflight[s].kind = "reset"
    /\ LET r == inflight[s]
           existing == findAccountByEmail(r.email)
       IN IF existing = 0 \/ ~acct[existing].isActive
          THEN /\ resp' = [route |-> "reset-password", status |-> 404]
               /\ UNCHANGED <<acct, otp>>
          ELSE LET hashedPassword == Hash(Plain(r.newPassword))
                   doc == PreSave([acct[existing] EXCEPT !.password = hashedPassword], TRUE)
               IN /\ acct' = [acct EXCEPT ![existing] = doc]
                  /\ otp' = DeleteOtp(r.email)
                  /\ resp' = [route |-> "reset-password", status |-> 200,
                               user |-> existing, newPassword |-> r.newPassword]
    /\ inflight' = [inflight EXCEPT ![s] = Idle]
    /\ UNCHANGED <<now, tokens, otpDocs, issued>>

\* the isActive: true condition of the login query
ActiveFilterAny(doc) == TRUE

ActiveFilter(doc) == doc.isActive

\* Model.findOne({ email, isActive: true }) in a collection of accounts: the
\* _id, or 0
FindActiveByEmail(accounts, role, email) ==
  IF \E i \in Ids : accounts[i].role = role /\ accounts[i].email = email
                     /\ ActiveFilter(accounts[i])
  THEN CHOOSE i \in Ids : accounts[i].role = role /\ accounts[i].email = email
                          /\ ActiveFilter(accounts[i])
  ELSE 0

\* the outcome of POST /api/auth/login over a state of the collections:
\* validation, the lookup in the collection of userType, the comparison
loginCheck(accounts, raw, password, userType) ==
  IF ~IsEmail(raw) \/ userType \notin Roles THEN [status |-> 400, user |-> 0]
  ELSE LET user == FindActiveByEmail(accounts, userType, NormalizeEmail(raw))
       IN IF user = 0 THEN [status |-> 401, user |-> 0]
          ELSE IF ~comparePassword(accounts[user].password, password)
            THEN [status |-> 401, user |-> 0]
          ELSE [status |-> 200, user |-> user]

\* POST /api/auth/login; saving lastLogin leaves the password unmodified
Login ==
  \E raw \in RawEmails, password \in PlainPasswords, userType \in Roles \cup {"admin"} :
    LET out == loginCheck(acct, raw, password, userType)
    IN /\ tokens' = IF out.status = 200
                     THEN tokens \cup {generateToken(out.user, userType)} ELSE tokens
       /\ resp' = [route |-> "login", status |-> out.status,
                    email |-> NormalizeEmail(raw), password |-> password,
                    userType |-> userType,
                    token |-> IF out.status = 200 THEN generateToken(out.user, userType)
                              ELSE generateToken(0, "")]
       /\ UNCHANGED <<acct, now, inflight, otp, otpDocs, issued>>

\* a request checked by the auth middleware alone (any protected route)
AuthRequest ==
  \E header \in AuthHeaders :
    /\ resp' = [route |-> "auth", next |-> auth(header).next,
                 status |-> auth(header).status, header |-> header]
    /\ UNCHANGED <<acct, now, tokens, inflight, otp, otpDocs, issued>>

\* isActive is written outside these routes (PUT /api/users/:id/status loads the
\* account through a model the route file never imports)
SetActive ==
  \E id \in Ids, b \in BOOLEAN :
    /\ acct[id].role # "none"
    /\ acct[id].isActive # b
    /\ acct' = [acct EXCEPT ![id].isActive = b]
    /\ UNCHANGED <<now, tokens, inflight, otp, otpDocs, issued, resp>>

Tick ==
  /\ now < MaxTime
  /\ now' = now + 1
  /\ UNCHANGED <<acct, tokens, inflight, otp, otpDocs, issued, resp>>

(***************************************************************************)
(* PART III.  Uploads, storage, verification, moderation and the nearby    *)
(* query (backend/routes/assessments.js, backend/utils/cloudinary.js,      *)
(* backend/utils/localStorage.js, backend/models/Video.js).                *)
(***************************************************************************)
VARIABLES
  videoUtils,    \* the storage module the routes file bound at load:
                 \* "cloudinary" or "local"
  cloudinaryOk,  \* whether Cloudinary accepts an upload now (credentials valid)
  cloudFiles,    \* number of files stored in Cloudinary
  localFiles,    \* number of files in backend/uploads/videos
  assessments,   \* the Assessment collection, by _id
  videos         \* the Video collection, by _id

svars == <<videoUtils, cloudinaryOk, cloudFiles, localFiles, assessments, videos>>

\* what the routes of this part leave alone
accountState == <<acct, now, tokens, inflight, otp, otpDocs, issued>>

MaxFiles == 3
MaxAssessments == 2
MaxVideos == 2

AssessmentIds == 1..MaxAssessments
VideoIds == 1..MaxVideos

\* positions on a line, in km, and the default radius of the nearby query
Positions == {0, 100}
DefaultRadius == 50
DefaultMaxResults == 20
Radii == {DefaultRadius, 4 * DefaultRadius}

NoAssessment ==
  [exists |-> FALSE, athlete |-> 0, verificationStatus |-> "", verifiedBy |-> 0,
   position |-> 0]

NoVideo ==
  [exists |-> FALSE, uploadedBy |-> 0, videoType |-> "", visibility |-> "", status |-> "",
   verificationStatus |-> "", verifiedBy |-> 0, moderatedBy |-> 0, position |-> 0]

\* the videoUtils selection at the top of the routes file: the local module is
\* taken only when require('../utils/cloudinary') throws
LoadVideoUtils(requireThrows) == IF requireThrows THEN "local" ELSE "cloudinary"

\* the Authorization headers of the part: none, or a token the server signed
BearerOf(t) ==
  [scheme |-> "Bearer", verifies |-> TRUE, userId |-> t.userId, role |-> t.role, exp |-> t.exp]

SessionHeaders == {[scheme |-> "none"]} \cup {BearerOf(t) : t \in tokens}

\* uploadVideo.single('video'): multer hands the file to the storage engine
\* of the bound module.  "stored" tells where the file went, "error" that
\* multer called next(err), which Express answers with 500.
UploadSingle(hasFile) ==
  IF ~hasFile THEN [error |-> FALSE, stored |-> "nowhere", cloudinaryFailed |-> FALSE]
  ELSE IF videoUtils = "local"
    THEN [error |-> FALSE, stored |-> "local", cloudinaryFailed |-> FALSE]
  ELSE IF cloudinaryOk
    THEN [error |-> FALSE, stored |-> "cloudinary", cloudinaryFailed |-> FALSE]
  ELSE [error |-> TRUE, stored |-> "nowhere", cloudinaryFailed |-> TRUE]

\* the effect of UploadSingle on the two stores
StoreFile(up) ==
  /\ cloudFiles' = IF up.stored = "cloudinary" THEN cloudFiles + 1 ELSE cloudFiles
  /\ localFiles' = IF up.stored = "local" THEN localFiles + 1 ELSE localFiles

FreeAssessmentIds == {i \in AssessmentIds : ~assessments[i].exists}
FreeVideoIds == {i \in VideoIds : ~videos[i].exists}

\* the status of an upload request: auth, multer, validation, the file check,
\* then the document is saved
UploadStatus(a, up, fieldsValid, hasFile) ==
  IF ~a.next THEN a.status
  ELSE IF up.error THEN 500
  ELSE IF ~fieldsValid THEN 400
  ELSE IF ~hasFile THEN 400
  ELSE 200

\* POST /api/assessments/upload
UploadAssessment(header, hasFile, fieldsValid, position) ==
  /\ cloudFiles < MaxFiles /\ localFiles < MaxFiles
  /\ FreeAssessmentIds # {}
  /\ LET a == auth(header)
         up == IF a.next THEN UploadSingle(hasFile) ELSE UploadSingle(FALSE)
         status == UploadStatus(a, up, fieldsValid, hasFile)
         id == CHOOSE i \in FreeAssessmentIds : \A j \in FreeAssessmentIds : i <= j
     IN
       /\ StoreFile(up)
       /\ assessments' =
            IF status = 200
            THEN [assessments EXCEPT ![id] =
                    [exists |-> TRUE, athlete |-> a.user,
                     verificationStatus |-> "pending", verifiedBy |-> 0,
                     position |-> position]]
            ELSE assessments
       /\ resp' = [route |-> "assessments/upload", status |-> status,
                    cloudinaryFailed |-> up.cloudinaryFailed, stored |-> up.stored]
       /\ UNCHANGED <<videoUtils, cloudinaryOk, videos>>
       /\ UNCHANGED accountState

\* the Cloudinary account starts or stops accepting uploads (credentials in
\* .env are replaced, the service is unreachable)
CloudinaryChange ==
  /\ cloudinaryOk' = ~cloudinaryOk
  /\ UNCHANGED <<videoUtils, cloudFiles, localFiles, assessments, videos>>
  /\ UNCHANGED <<accountState, resp>>

\* auto-approval in POST /api/videos/upload
VideoStatusFor(videoType) ==
  IF videoType = "assignment_submission" \/ videoType = "gesture_practice"
  THEN "approved" ELSE "pending"

\* value || fallback for a request field ("" when the field is absent)
OrDefault(value, fallback) == IF value = "" THEN fallback ELSE value

\* POST /api/videos/upload
UploadVideo(header, hasFile, fieldsValid, videoType, visibility, position) ==
  /\ cloudFiles < MaxFiles /\ localFiles < MaxFiles
  /\ FreeVideoIds # {}
  /\ LET a == auth(header)
         up == IF a.next THEN UploadSingle(hasFile) ELSE UploadSingle(FALSE)
         status == UploadStatus(a, up, fieldsValid, hasFile)
         id == CHOOSE i \in FreeVideoIds : \A j \in FreeVideoIds : i <= j
     IN
       /\ StoreFile(up)
       /\ videos' =
            IF status = 200
            THEN [videos EXCEPT ![id] =
                    [exists |-> TRUE, uploadedBy |-> a.user,
                     videoType |-> OrDefault(videoType, "regular_upload"),
                     visibility |-> OrDefault(visibility, "coaches_only"),
                     status |-> VideoStatusFor(videoType),
                     verificationStatus |-> "pending", verifiedBy |-> 0,
                     moderatedBy |-> 0, position |-> position]]
            ELSE videos
       /\ resp' = [route |-> "videos/upload", status |-> status,
                    cloudinaryFailed |-> up.cloudinaryFailed, stored |-> up.stored]
       /\ UNCHANGED <<videoUtils, cloudinaryOk, assessments>>
       /\ UNCHANGED accountState

\* the role lists as the routes pass them: authorize(['coach']) and
\* authorize(['sai_official']) hand one array to the rest parameter
VerifyRoles == <<Arr(<<"coach">>)>>

ModerateRoles == <<Arr(<<"sai_official">>)>>

\* PUT /api/assessments/:id/verify
VerifyAssessment ==
  \E header \in SessionHeaders, id \in AssessmentIds,
     verificationStatus \in {"verified", "rejected", "approved"} :
    LET z == AuthThenAuthorize(header, VerifyRoles)
        status == IF ~z.next THEN z.status
                  ELSE IF verificationStatus \notin {"verified", "flagged", "rejected"} THEN 400
                  ELSE IF ~assessments[id].exists THEN 404
                  ELSE 200
    IN /\ assessments' =
            IF status = 200
            THEN [assessments EXCEPT ![id].verificationStatus = verificationStatus,
                                     ![id].verifiedBy = z.user]
            ELSE assessments
       /\ resp' = [route |-> "assessments/verify", status |-> status,
                    user |-> auth(header).user, userType |-> auth(header).userType,
                    id |-> IF z.next THEN id ELSE 0,
                    requested |-> IF z.next THEN verificationStatus ELSE ""]
       /\ UNCHANGED <<videoUtils, cloudinaryOk, cloudFiles, localFiles, videos>>
       /\ UNCHANGED accountState

\* PUT /api/videos/:id/verify
VerifyVideo ==
  \E header \in SessionHeaders, id \in VideoIds,
     verificationStatus \in {"approved", "rejected", "verified"} :
    LET z == AuthThenAuthorize(header, VerifyRoles)
        status == IF ~z.next THEN z.status
                  ELSE IF verificationStatus \notin {"approved", "rejected"} THEN 400
                  ELSE IF ~videos[id].exists THEN 404
                  ELSE IF videos[id].videoType # "assignment_submission" THEN 400
                  ELSE 200
    IN /\ videos' =
            IF status = 200
            THEN [videos EXCEPT ![id].verificationStatus = verificationStatus,
                                ![id].verifiedBy = z.user]
            ELSE videos
       /\ resp' = [route |-> "videos/verify", status |-> status,
                    user |-> auth(header).user, userType |-> auth(header).userType,
                    id |-> IF z.next THEN id ELSE 0,
                    requested |-> IF z.next THEN verificationStatus ELSE ""]
       /\ UNCHANGED <<videoUtils, cloudinaryOk, cloudFiles, localFiles, assessments>>
       /\ UNCHANGED accountState

\* PUT /api/videos/:id/moderate
ModerateVideo(header, id, newStatus) ==
  LET z == AuthThenAuthorize(header, ModerateRoles)
      status == IF ~z.next THEN z.status
                ELSE IF newStatus \notin {"approved", "rejected", "flagged"} THEN 400
                ELSE IF ~videos[id].exists THEN 404
                ELSE 200
  IN /\ videos' =
          IF status = 200
          THEN [videos EXCEPT ![id].status = newStatus, ![id].moderatedBy = z.user]
          ELSE videos
     /\ resp' = [route |-> "videos/moderate", status |-> status,
                  user |-> auth(header).user, userType |-> auth(header).userType,
                  id |-> IF z.next THEN id ELSE 0,
                  requested |-> IF z.next THEN newStatus ELSE ""]
     /\ UNCHANGED <<videoUtils, cloudinaryOk, cloudFiles, localFiles, assessments>>
     /\ UNCHANGED accountState

\* query conditions: { field: value }, { field: { $in: [...] } },
\* { field: { $exists: true } } and { $or: [{ field: value }, ...] }
Eq(value) == [op |-> "eq", value |-> value]

In(values) == [op |-> "in", values |-> values]

Exists == [op |-> "exists"]

AnyOf(alternatives) == [op |-> "or", alternatives |-> alternatives]

\* the statuses of the Video schema
VideoStatuses == {"pending", "approved", "rejected", "flagged"}

\* the status condition findNearby puts in every query
StatusConditionAny == In(VideoStatuses)

StatusCondition == Eq("approved")

\* { ...query, ...filters }: a key of filters replaces the same key of query
Spread(query, filters) == filters @@ query

\* whether a document meets the condition under key k of a query
Meets(doc, k, cond) ==
  CASE cond.op = "eq" -> doc[k] = cond.value
    [] cond.op = "in" -> doc[k] \in cond.values
    [] cond.op = "exists" -> doc[k] # 0
    [] cond.op = "or" ->
         \E n \in DOMAIN cond.alternatives :
           doc[cond.alternatives[n].field] = cond.alternatives[n].value

\* Video.findNearby: $near within the radius, status approved, and the filters
findNearby(position, radiusInKm, filters) ==
  LET query == Spread([status |-> StatusCondition], filters)
  IN {i \in VideoIds :
        /\ videos[i].exists
        /\ Abs(videos[i].position - position) <= radiusInKm
        /\ \A k \in DOMAIN query : Meets(videos[i], k, query[k])}

\* Video.findForCoaches
findForCoaches(position, radiusInKm) ==
  findNearby(position, radiusInKm,
             [visibility |-> In({"public", "coaches_only"}), uploadedBy |-> Exists])

\* Video.findForSAIOfficials
findForSAIOfficials(position, radiusInKm) ==
  findNearby(position, radiusInKm,
             [visibility |-> In({"public", "coaches_only", "sai_officials_only"})])

\* the branch on req.user.userType in GET /api/videos/nearby
NearbyFor(req, position, radiusInKm) ==
  IF req.userType = "coach" THEN findForCoaches(position, radiusInKm)
  ELSE IF req.userType = "sai_official" THEN findForSAIOfficials(position, radiusInKm)
  ELSE findNearby(position, radiusInKm,
                  [anyOf |-> AnyOf(<<[field |-> "uploadedBy", value |-> req.user],
                                     [field |-> "visibility", value |-> "public"]>>)])

\* GET /api/videos/nearby
NearbyVideos ==
  \E header \in SessionHeaders, hasCoordinates \in BOOLEAN, position \in Positions :
    LET a == auth(header)
        status == IF ~a.next THEN a.status ELSE IF ~hasCoordinates THEN 400 ELSE 200
        found == IF status = 200 THEN NearbyFor(a, position, DefaultRadius) ELSE {}
    IN /\ resp' = [route |-> "videos/nearby", status |-> status,
                    user |-> a.user, userType |-> a.userType,
                    position |-> IF status = 200 THEN position ELSE 0,
                    videos |-> {[id |-> i, doc |-> videos[i]] : i \in found}]
       /\ UNCHANGED svars
       /\ UNCHANGED accountState

\* the statuses of the Assessment schema
AssessmentStatuses == {"pending", "verified", "flagged", "rejected"}

\* the paths of the Assessment schema that the model keeps
AssessmentPaths == {"athlete", "verificationStatus", "verifiedBy", "location"}

\* the status condition of GET /api/assessments/nearby
NearbyStatusConditionAny == In(AssessmentStatuses)

NearbyStatusCondition == In({"verified", "pending"})

\* if (value) query[key] = value
WithFilter(query, key, value) ==
  IF value = "" THEN query ELSE [k \in {key} |-> Eq(value)] @@ query

\* the query of GET /api/assessments/nearby without its $near part
NearbyQuery(sportFilter, category) ==
  WithFilter(WithFilter([verificationStatus |-> NearbyStatusCondition], "sport", sportFilter),
             "category", category)

\* Assessment.find casts the filter: with strictQuery the keys that are no
\* path of the schema are removed, without it they stay
CastQuery(query, strictQuery) ==
  IF strictQuery THEN [k \in DOMAIN query \cap AssessmentPaths |-> query[k]] ELSE query

\* a stored assessment read under a key: a document has no value under a key
\* that is no path of its schema
AssessmentField(doc, k) == IF k \in DOMAIN doc THEN doc[k] ELSE ""

\* .sort({ createdAt: -1 }).limit(n): the n newest (ids grow with createdAt)
Newest(found, n) == {i \in found : Cardinality({j \in found : j > i}) < n}

\* Assessment.find(query) of GET /api/assessments/nearby
FindNearbyAssessments(position, radiusInKm, query, maxResults) ==
  Newest({i \in AssessmentIds :
            /\ assessments[i].exists
            /\ Abs(assessments[i].position - position) <= radiusInKm
            /\ \A k \in DOMAIN query :
                 Meets([f \in {k} |-> AssessmentField(assessments[i], k)], k, query[k])},
         maxResults)

\* GET /api/assessments/nearby
NearbyAssessments(header, coordinatesValid, position, radius, sportFilter, category, maxResults, strictQuery) ==
  LET a == auth(header)
      status == IF ~a.next THEN a.status ELSE IF ~coordinatesValid THEN 400 ELSE 200
      found == IF status = 200
               THEN FindNearbyAssessments(position, radius,
                      CastQuery(NearbyQuery(sportFilter, category), strictQuery), maxResults)
               ELSE {}
  IN /\ resp' = [route |-> "assessments/nearby", status |-> status,
                  position |-> IF status = 200 THEN position ELSE 0,
                  radius |-> IF status = 200 THEN radius ELSE 0,
                  assessments |-> {[id |-> i, doc |-> assessments[i]] : i \in found}]
     /\ UNCHANGED svars
     /\ UNCHANGED accountState

\* JavaScript values of the ownership checks: an ObjectId object and a string
ObjectId(n) == [type |-> "object", hex |-> n]

JsString(n) == [type |-> "string", hex |-> n]

\* ObjectId.prototype.toString()
toString(oid) == JsString(oid.hex)

\* a === b: values of different types are never strictly equal
StrictEqual(a, b) == a.type = b.type /\ a.hex = b.hex

\* req.user.id as auth sets it: id: user._id, the ObjectId of the document
ReqUserId(req) == ObjectId(req.user)

\* req.user.role: the account documents spread into req.user have no role field
ReqUserRole(req) == "undefined"

\* deleteVideo(publicId) of the bound storage module: Cloudinary's destroy
\* throws when the service rejects the call, the local module unlinks the file
DeleteFileFails == videoUtils = "cloudinary" /\ ~cloudinaryOk

RemoveFile ==
  /\ cloudFiles' = IF videoUtils = "cloudinary" /\ cloudFiles > 0
                   THEN cloudFiles - 1 ELSE cloudFiles
  /\ localFiles' = IF videoUtils = "local" /\ localFiles > 0
                   THEN localFiles - 1 ELSE localFiles

\* DELETE /api/assessments/:id
DeleteAssessment(header, id) ==
  LET a == auth(header)
      status == IF ~a.next THEN a.status
                ELSE IF ~assessments[id].exists THEN 404
                ELSE IF ~StrictEqual(toString(ObjectId(assessments[id].athlete)), ReqUserId(a))
                        /\ ReqUserRole(a) # "admin" THEN 403
                ELSE IF DeleteFileFails THEN 500
                ELSE 200
  IN /\ IF status = 200
        THEN RemoveFile /\ assessments' = [assessments EXCEPT ![id] = NoAssessment]
        ELSE UNCHANGED <<cloudFiles, localFiles, assessments>>
     /\ resp' = [route |-> "assessments/delete", status |-> status,
                  user |-> a.user, userType |-> a.userType,
                  id |-> IF a.next THEN id ELSE 0,
                  owner |-> IF a.next THEN assessments[id].athlete ELSE 0]
     /\ UNCHANGED <<videoUtils, cloudinaryOk, videos>>
     /\ UNCHANGED accountState

\* DELETE /api/videos/:id
DeleteVideo(header, id) ==
  LET a == auth(header)
      status == IF ~a.next THEN a.status
                ELSE IF ~videos[id].exists THEN 404
                ELSE IF ~StrictEqual(toString(ObjectId(videos[id].uploadedBy)), ReqUserId(a))
                        /\ a.userType # "sai_official" THEN 403
                ELSE IF DeleteFileFails THEN 500
                ELSE 200
  IN /\ IF status = 200
        THEN RemoveFile /\ videos' = [videos EXCEPT ![id] = NoVideo]
        ELSE UNCHANGED <<cloudFiles, localFiles, videos>>
     /\ resp' = [route |-> "videos/delete", status |-> status,
                  user |-> a.user, userType |-> a.userType,
                  id |-> IF a.next THEN id ELSE 0,
                  owner |-> IF a.next THEN videos[id].uploadedBy ELSE 0]
     /\ UNCHANGED <<videoUtils, cloudinaryOk, assessments>>
     /\ UNCHANGED accountState

\* nothing stored, nothing uploaded; the storage module is bound
SIdle ==
  /\ videoUtils = LoadVideoUtils(FALSE)
  /\ cloudinaryOk = TRUE
  /\ cloudFiles = 0
  /\ localFiles = 0
  /\ assessments = [i \in AssessmentIds |-> NoAssessment]
  /\ videos = [i \in VideoIds |-> NoVideo]

\* an athlete, a coach and an SAI official, each holding a token issued at time 0
SessionAccounts ==
  /\ now = 0
  /\ acct = [i \in Ids |->
       IF i = 1 THEN [role |-> "athlete", email |-> "a@x.io",
                      password |-> Hash(Plain("pw1")), isActive |-> TRUE]
       ELSE IF i = 2 THEN [role |-> "coach", email |-> "b@x.io",
                           password |-> Hash(Plain("pw2")), isActive |-> TRUE]
       ELSE IF i = 3 THEN [role |-> "sai_official", email |-> "c@x.io",
                           password |-> Hash(Plain("pw1")), isActive |-> TRUE]
       ELSE NoAccount]
  /\ tokens = {generateToken(1, "athlete"), generateToken(2, "coach"),
               generateToken(3, "sai_official")}
  /\ inflight = [s \in Slots |-> Idle]
  /\ otp = [e \in Emails |-> NoOtp]
  /\ otpDocs = 0
  /\ issued = [e \in Emails |-> NotIssued]

(***************************************************************************)
(* PART IV.  Gesture-analysis sessions (routes/gestureAnalysis and the     *)
(* GestureAnalysis model).                                                 *)
(***************************************************************************)
VARIABLES
  sessions   \* the GestureAnalysis collection, by _id

xvars == <<sessions>>

MaxSessions == 2
MaxSessionViolations == 2

SessionIds == 1..MaxSessions

NoSession ==
  [exists |-> FALSE, athleteId |-> 0, status |-> "", violations |-> 0, totalAttempts |-> 0,
   scored |-> FALSE, formAccuracy |-> 0]

FreeSessionIds == {i \in SessionIds : ~sessions[i].exists}

\* gestureAnalysisSchema.methods.calculateScores: formAccuracy is
\* max(0, 100 - violations / (totalAttempts * 3) * 100), here rounded down to
\* an integer; the two scores derived from it are not kept
FormAccuracy(violationCount, totalAttempts) ==
  Max(0, 100 - ((violationCount * 100) \div (totalAttempts * 3)))

\* POST /api/gesture-analysis/start
StartSession(header, fieldsValid) ==
  /\ FreeSessionIds # {}
  /\ LET a == auth(header)
         status == IF ~a.next THEN a.status ELSE IF ~fieldsValid THEN 400 ELSE 201
         id == CHOOSE i \in FreeSessionIds : \A j \in FreeSessionIds : i <= j
     IN
       /\ sessions' =
            IF status = 201
            THEN [sessions EXCEPT ![id] =
                    [exists |-> TRUE, athleteId |-> a.user, status |-> "recording",
                     violations |-> 0, totalAttempts |-> 1, scored |-> FALSE,
                     formAccuracy |-> 0]]
            ELSE sessions
       /\ resp' = [route |-> "gesture-analysis/start", status |-> status,
                    user |-> a.user, userType |-> a.userType]
  /\ UNCHANGED svars
  /\ UNCHANGED accountState

\* POST /api/gesture-analysis/:id/violation
RecordViolation(header, id, fieldsValid) ==
  /\ sessions[id].violations < MaxSessionViolations
  /\ LET a == auth(header)
         status == IF ~a.next THEN a.status
                   ELSE IF ~fieldsValid THEN 400
                   ELSE IF ~sessions[id].exists THEN 404
                   ELSE IF ~StrictEqual(toString(ObjectId(sessions[id].athleteId)),
                                        ReqUserId(a)) THEN 403
                   ELSE 200
     IN
       /\ sessions' =
            IF status = 200
            THEN [sessions EXCEPT ![id].violations = @ + 1]
            ELSE sessions
       /\ resp' = [route |-> "gesture-analysis/violation", status |-> status,
                    user |-> a.user, userType |-> a.userType,
                    valid |-> a.next /\ fieldsValid,
                    id |-> IF a.next THEN id ELSE 0,
                    owner |-> IF a.next THEN sessions[id].athleteId ELSE 0]
  /\ UNCHANGED svars
  /\ UNCHANGED accountState

\* PUT /api/gesture-analysis/:id/complete
CompleteSession(header, id, totalAttempts) ==
  LET a == auth(header)
      status == IF ~a.next THEN a.status
                ELSE IF totalAttempts < 1 THEN 400
                ELSE IF ~sessions[id].exists THEN 404
                ELSE IF ~StrictEqual(toString(ObjectId(sessions[id].athleteId)),
                                     ReqUserId(a)) THEN 403
                ELSE 200
  IN /\ sessions' =
          IF status = 200
          THEN [sessions EXCEPT ![id].totalAttempts = totalAttempts,
                                ![id].status = "completed",
                                ![id].scored = TRUE,
                                ![id].formAccuracy =
                                   FormAccuracy(sessions[id].violations, totalAttempts)]
          ELSE sessions
     /\ resp' = [route |-> "gesture-analysis/complete", status |-> status,
                  user |-> a.user, userType |-> a.userType,
                  valid |-> a.next /\ totalAttempts >= 1,
                  id |-> IF a.next THEN id ELSE 0,
                  owner |-> IF a.next THEN sessions[id].athleteId ELSE 0]
     /\ UNCHANGED svars
     /\ UNCHANGED accountState

\* no gesture-analysis session
XIdle == sessions = [i \in SessionIds |-> NoSession]

NoResponse == [route |-> "none", status |-> 0]

AInitIdle ==
  /\ now = 0
  /\ tokens = {}
  /\ inflight = [s \in Slots |-> Idle]
  /\ otp = [e \in Emails |-> NoOtp]
  /\ otpDocs = 0
  /\ issued = [e \in Emails |-> NotIssued]
  /\ resp = NoResponse

\* the gesture component, unmounted
GIdle ==
  /\ sport = "athletics"
  /\ currentRules = <<>>
  /\ isRecording = FALSE
  /\ violations = 0
  /\ attempts = 0
  /\ recorder = "none"
  /\ cb = NoClosure
  /\ violationCalls = <<>>
  /\ detected = 0
  /\ checked = 0
  /\ stopCause = "none"
  /\ frames = 0

vars == <<gvars, avars, svars, xvars>>

(***************************************************************************)
(* Specifications.  Each one runs one part of the system from an initial   *)
(* state of its own; the other parts stay idle.                            *)
(***************************************************************************)
\* the GestureRecorder component, mounted with some sport
GestureInit ==
  /\ XIdle
  /\ SIdle
  /\ GInit
  /\ AInitIdle
  /\ acct = [i \in Ids |-> NoAccount]

GestureNext ==
  \/ RuleSelectionEffect /\ UNCHANGED <<avars, svars, xvars>>
  \/ RegisterPose /\ UNCHANGED <<avars, svars, xvars>>
  \/ startRecording /\ UNCHANGED <<avars, svars, xvars>>
  \/ StopClick /\ UNCHANGED <<avars, svars, xvars>>
  \/ PoseFrame /\ UNCHANGED <<avars, svars, xvars>>

SpecGesture == GestureInit /\ [][GestureNext]_vars

\* registration: an empty database, concurrent register requests
RegisterInit ==
  /\ XIdle
  /\ SIdle
  /\ GIdle
  /\ AInitIdle
  /\ acct = [i \in Ids |-> NoAccount]

RegisterNext ==
  \/ RegisterBegin /\ UNCHANGED <<gvars, svars, xvars>>
  \/ RegisterFinish /\ UNCHANGED <<gvars, svars, xvars>>

SpecRegister == RegisterInit /\ [][RegisterNext]_vars

\* password reset: an athlete account for a@x.io and none for b@x.io
OtpInit ==
  /\ XIdle
  /\ SIdle
  /\ GIdle
  /\ AInitIdle
  /\ acct = [i \in Ids |->
       IF i = 1 THEN [role |-> "athlete", email |-> "a@x.io",
                      password |-> Hash(Plain("pw1")), isActive |-> TRUE]
       ELSE NoAccount]

OtpNext ==
  \/ ForgotPassword /\ UNCHANGED <<gvars, svars, xvars>>
  \/ ResendOtp /\ UNCHANGED <<gvars, svars, xvars>>
  \/ VerifyOtpBegin /\ UNCHANGED <<gvars, svars, xvars>>
  \/ VerifyOtpFinish /\ UNCHANGED <<gvars, svars, xvars>>
  \/ ResetPasswordBegin /\ UNCHANGED <<gvars, svars, xvars>>
  \/ ResetPasswordFinish /\ UNCHANGED <<gvars, svars, xvars>>
  \/ SetActive /\ UNCHANGED <<gvars, svars, xvars>>
  \/ Tick /\ UNCHANGED <<gvars, svars, xvars>>

SpecOtp == OtpInit /\ [][OtpNext]_vars

\* the auth middleware: two accounts holding the tokens issued to them at time 0
AuthInit ==
  /\ XIdle
  /\ SIdle
  /\ GIdle
  /\ now = 0
  /\ inflight = [s \in Slots |-> Idle]
  /\ otp = [e \in Emails |-> NoOtp]
  /\ otpDocs = 0
  /\ issued = [e \in Emails |-> NotIssued]
  /\ resp = NoResponse
  /\ acct = [i \in Ids |->
       IF i = 1 THEN [role |-> "athlete", email |-> "a@x.io",
                      password |-> Hash(Plain("pw1")), isActive |-> TRUE]
       ELSE IF i = 2 THEN [role |-> "coach", email |-> "b@x.io",
                           password |-> Hash(Plain("pw2")), isActive |-> TRUE]
       ELSE NoAccount]
  /\ tokens = {generateToken(1, "athlete"), generateToken(2, "coach")}

AuthNext ==
  \/ AuthRequest /\ UNCHANGED <<gvars, svars, xvars>>
  \/ SetActive /\ UNCHANGED <<gvars, svars, xvars>>
  \/ Tick /\ UNCHANGED <<gvars, svars, xvars>>

SpecAuth == AuthInit /\ [][AuthNext]_vars

\* login: an athlete and a coach, activated and deactivated, no token issued
LoginInit ==
  /\ GIdle
  /\ SIdle
  /\ XIdle
  /\ AInitIdle
  /\ acct = [i \in Ids |->
       IF i = 1 THEN [role |-> "athlete", email |-> "a@x.io",
                      password |-> Hash(Plain("pw1")), isActive |-> TRUE]
       ELSE IF i = 2 THEN [role |-> "coach", email |-> "b@x.io",
                           password |-> Hash(Plain("pw2")), isActive |-> TRUE]
       ELSE NoAccount]

LoginNext ==
  \/ Login /\ UNCHANGED <<gvars, svars, xvars>>
  \/ SetActive /\ UNCHANGED <<gvars, svars, xvars>>

SpecLogin == LoginInit /\ [][LoginNext]_vars

\* uploads: the storage module is bound at load, with require throwing or not,
\* and Cloudinary accepts uploads or not
UploadInit ==
  /\ XIdle
  /\ GIdle
  /\ SessionAccounts
  /\ resp = NoResponse
  /\ \E requireThrows \in BOOLEAN : videoUtils = LoadVideoUtils(requireThrows)
  /\ cloudinaryOk \in BOOLEAN
  /\ cloudFiles = 0
  /\ localFiles = 0
  /\ assessments = [i \in AssessmentIds |-> NoAssessment]
  /\ videos = [i \in VideoIds |-> NoVideo]

UploadNext ==
  \/ (\E header \in SessionHeaders, hasFile \in BOOLEAN, fieldsValid \in BOOLEAN :
        UploadAssessment(header, hasFile, fieldsValid, 0)) /\ UNCHANGED <<gvars, xvars>>
  \/ CloudinaryChange /\ UNCHANGED <<gvars, xvars>>

SpecUpload == UploadInit /\ [][UploadNext]_vars

\* review: uploads, verification and moderation
ReviewInit ==
  /\ XIdle
  /\ GIdle
  /\ SessionAccounts
  /\ resp = NoResponse
  /\ SIdle

ReviewNext ==
  \/ (\E header \in SessionHeaders : UploadAssessment(header, TRUE, TRUE, 0)) /\ UNCHANGED <<gvars, xvars>>
  \/ (\E header \in SessionHeaders, hasFile \in BOOLEAN, fieldsValid \in BOOLEAN,
         videoType \in {"", "assignment_submission"} :
        UploadVideo(header, hasFile, fieldsValid, videoType, "", 0)) /\ UNCHANGED <<gvars, xvars>>
  \/ VerifyAssessment /\ UNCHANGED <<gvars, xvars>>
  \/ VerifyVideo /\ UNCHANGED <<gvars, xvars>>
  \/ (\E header \in SessionHeaders, id \in VideoIds,
         newStatus \in {"approved", "rejected", "flagged", "pending"} :
        ModerateVideo(header, id, newStatus)) /\ UNCHANGED <<gvars, xvars>>

SpecReview == ReviewInit /\ [][ReviewNext]_vars

\* the nearby query over uploaded and moderated videos
NearbyInit == ReviewInit

NearbyNext ==
  \/ (\E t \in {u \in tokens : u.role \in {"athlete", "coach"}},
         videoType \in {"", "assignment_submission"},
         visibility \in {"", "public", "sai_officials_only", "private"} :
        UploadVideo(BearerOf(t), TRUE, TRUE, videoType, visibility, 0)) /\ UNCHANGED <<gvars, xvars>>
  \/ (\E t \in {u \in tokens : u.role = "sai_official"}, id \in VideoIds :
        ModerateVideo(BearerOf(t), id, "rejected")) /\ UNCHANGED <<gvars, xvars>>
  \/ NearbyVideos /\ UNCHANGED <<gvars, xvars>>

SpecNearby == NearbyInit /\ [][NearbyNext]_vars

\* deletion: assessments and videos uploaded by each user, deleted by any user
DeleteInit == ReviewInit

DeleteNext ==
  \/ (\E t \in {u \in tokens : u.role = "athlete"} :
        UploadAssessment(BearerOf(t), TRUE, TRUE, 0)) /\ UNCHANGED <<gvars, xvars>>
  \/ (\E t \in tokens : UploadVideo(BearerOf(t), TRUE, TRUE, "", "", 0)) /\ UNCHANGED <<gvars, xvars>>
  \/ (\E header \in SessionHeaders, id \in AssessmentIds :
        DeleteAssessment(header, id)) /\ UNCHANGED <<gvars, xvars>>
  \/ (\E header \in SessionHeaders, id \in VideoIds :
        DeleteVideo(header, id)) /\ UNCHANGED <<gvars, xvars>>

SpecDelete == DeleteInit /\ [][DeleteNext]_vars

\* the assessments a collection may hold: documents of the athlete with any
\* status of the schema, at any position
StoredAssessments ==
  {NoAssessment} \cup
    {[exists |-> TRUE, athlete |-> 1, verificationStatus |-> st, verifiedBy |-> 0,
      position |-> p] : st \in AssessmentStatuses, p \in Positions}

\* nearby assessments: the session accounts and a collection of stored
\* assessments, their files on Cloudinary
AssessmentsNearbyInit ==
  /\ XIdle
  /\ GIdle
  /\ SessionAccounts
  /\ resp = NoResponse
  /\ videoUtils = LoadVideoUtils(FALSE)
  /\ cloudinaryOk = TRUE
  /\ localFiles = 0
  /\ videos = [i \in VideoIds |-> NoVideo]
  /\ assessments \in [AssessmentIds -> StoredAssessments]
  /\ cloudFiles = Cardinality({i \in AssessmentIds : assessments[i].exists})

AssessmentsNearbyNext ==
  \/ (\E t \in {u \in tokens : u.role = "athlete"}, position \in Positions :
        UploadAssessment(BearerOf(t), TRUE, TRUE, position)) /\ UNCHANGED <<gvars, xvars>>
  \/ (\E header \in {[scheme |-> "none"]} \cup {BearerOf(t) : t \in {u \in tokens : u.role = "coach"}},
          coordinatesValid \in BOOLEAN, position \in Positions, radius \in Radii,
          sportFilter \in {"", "athletics"}, category \in {"", "speed"},
          maxResults \in {1, DefaultMaxResults}, strictQuery \in BOOLEAN :
        NearbyAssessments(header, coordinatesValid, position, radius, sportFilter, category,
                          maxResults, strictQuery)) /\ UNCHANGED <<gvars, xvars>>

SpecAssessmentsNearby == AssessmentsNearbyInit /\ [][AssessmentsNearbyNext]_vars

\* gesture-analysis sessions started by the athlete or the official, changed and
\* completed by any user
SessionInit == ReviewInit

SessionNext ==
  \/ (\E header \in {h \in SessionHeaders : h.scheme = "none" \/ h.role # "coach"},
         fieldsValid \in BOOLEAN :
        StartSession(header, fieldsValid)) /\ UNCHANGED gvars
  \/ (\E header \in SessionHeaders, id \in SessionIds, fieldsValid \in BOOLEAN :
        RecordViolation(header, id, fieldsValid)) /\ UNCHANGED gvars
  \/ (\E header \in SessionHeaders, id \in SessionIds, totalAttempts \in 0..2 :
        CompleteSession(header, id, totalAttempts)) /\ UNCHANGED gvars

SpecSession == SessionInit /\ [][SessionNext]_vars

(***************************************************************************)
(* Properties of the auth routes and the auth middleware.                  *)
(***************************************************************************)

\* C8: a step changes the stored password of an account only when it completes
\* a reset-password request whose code is the most recently issued OTP of that
\* email, which is not expired and which a verify-otp call has confirmed since
\* it was issued.
C8_ResetNeedsVerifiedCurrentOtp ==
  [][\A id \in Ids :
       (acct[id].role # "none" /\ acct'[id].password # acct[id].password) =>
         \E s \in Slots :
           /\ inflight[s].kind = "reset"
           /\ inflight'[s].kind = "idle"
           /\ inflight[s].email = acct[id].email
           /\ issued[acct[id].email].has
           /\ issued[acct[id].email].verifiedSince
           /\ issued[acct[id].email].code = inflight[s].otp
           /\ now <= issued[acct[id].email].expiresAt]_vars

\* C9: at most one account exists per email across the three collections, and
\* a registration for an email that already had an account is answered 400 and
\* creates nothing.
C9_OneAccountPerEmail ==
  /\ \A i, j \in Ids :
       (acct[i].role # "none" /\ acct[j].role # "none" /\ acct[i].email = acct[j].email)
         => i = j
  /\ (resp.route = "register" /\ resp.existed) => (resp.status = 400 /\ resp.created = 0)

\* what C10 requires of a request for the handler to be called
TokenAcceptable(header) ==
  /\ header.scheme = "Bearer"
  /\ header.verifies
  /\ now <= header.exp
  /\ header.userId \in Ids
  /\ header.role \in Roles
  /\ acct[header.userId].role = header.role
  /\ acct[header.userId].isActive

C4_CloudinaryFailureFallsBackToLocal ==
  (resp.route = "assessments/upload" /\ resp.cloudinaryFailed) =>
    (resp.status = 200 /\ resp.stored = "local")

\* C5: a verify request (assessment or video) of an authenticated coach passes
\* authorization and, when it succeeds, has set verificationStatus and
\* verifiedBy of the target as requested; the same request of an athlete or an
\* SAI official is answered 403 and changes no assessment and no video.
C5_VerifyIsForCoachesOnly ==
  [][(resp' # resp /\ resp'.route \in {"assessments/verify", "videos/verify"}
        /\ resp'.userType # "") =>
       IF resp'.userType = "coach"
       THEN /\ resp'.status # 403
            /\ resp'.status = 200 =>
                 LET target == IF resp'.route = "assessments/verify"
                               THEN assessments'[resp'.id] ELSE videos'[resp'.id]
                 IN target.verificationStatus = resp'.requested
                      /\ target.verifiedBy = resp'.user
       ELSE /\ resp'.status = 403
            /\ assessments' = assessments
            /\ videos' = videos]_vars

\* C6: a moderate request of an authenticated SAI official with a status in
\* {approved, rejected, flagged} passes authorization and, when it succeeds,
\* has set the video's status and moderatedBy; the same request of an athlete
\* or a coach is answered 403 and changes no video.
C6_ModerateIsForOfficialsOnly ==
  [][(resp' # resp /\ resp'.route = "videos/moderate" /\ resp'.userType # "") =>
       IF resp'.userType = "sai_official"
       THEN /\ resp'.status # 403
            /\ resp'.status = 200 =>
                 /\ videos'[resp'.id].status = resp'.requested
                 /\ videos'[resp'.id].moderatedBy = resp'.user
       ELSE /\ resp'.status = 403
            /\ videos' = videos]_vars

\* C7: every video GET /api/videos/nearby returns has status approved; a coach
\* gets only public and coaches_only videos, an SAI official only public,
\* coaches_only and sai_officials_only videos, an athlete only public videos
\* and the athlete's own; a private video of another user is never returned.
C7_NearbyReturnsApprovedVisibleOnly ==
  resp.route = "videos/nearby" =>
    \A r \in resp.videos :
      /\ r.doc.status = "approved"
      /\ resp.userType = "coach" => r.doc.visibility \in {"public", "coaches_only"}
      /\ resp.userType = "sai_official" =>
           r.doc.visibility \in {"public", "coaches_only", "sai_officials_only"}
      /\ resp.userType = "athlete" =>
           (r.doc.visibility = "public" \/ r.doc.uploadedBy = resp.user)
      /\ r.doc.visibility = "private" => r.doc.uploadedBy = resp.user

\* an athlete's query returned a video while a pending video and a private
\* video of another user were in range
C7_Witness ==
  /\ resp.route = "videos/nearby"
  /\ resp.status = 200
  /\ resp.userType = "athlete"
  /\ resp.videos # {}
  /\ \E i \in VideoIds :
       /\ videos[i].exists
       /\ videos[i].position = resp.position
       /\ videos[i].status = "pending" \/
            (videos[i].visibility = "private" /\ videos[i].uploadedBy # resp.user)
       /\ \A r \in resp.videos : r.id # i

(***************************************************************************)
(* Properties of the delete routes.                                        *)
(***************************************************************************)

\* C11: a DELETE /api/assessments/:id request for an existing assessment by
\* the athlete who uploaded it deletes the assessment and answers success; by
\* any other (non-admin) user it answers 403 and leaves the assessment and the
\* stored files in place.
C11_OwnerDeletesAssessment ==
  [][(resp' # resp /\ resp'.route = "assessments/delete" /\ resp'.user # 0
        /\ resp'.owner # 0) =>
       IF resp'.user = resp'.owner
       THEN resp'.status = 200 /\ ~assessments'[resp'.id].exists
       ELSE /\ resp'.status = 403
            /\ assessments' = assessments
            /\ cloudFiles' = cloudFiles /\ localFiles' = localFiles]_vars

\* C12: a DELETE /api/videos/:id request for an existing video by the user who
\* uploaded it, or by an SAI official, deletes the video; by any other athlete
\* or coach it answers 403 and the video remains.
C12_OwnerOrOfficialDeletesVideo ==
  [][(resp' # resp /\ resp'.route = "videos/delete" /\ resp'.user # 0
        /\ resp'.owner # 0) =>
       IF resp'.user = resp'.owner \/ resp'.userType = "sai_official"
       THEN resp'.status = 200 /\ ~videos'[resp'.id].exists
       ELSE resp'.status = 403 /\ videos' = videos]_vars

\* C13: a valid POST /:id/violation or PUT /:id/complete request for an existing
\* gesture-analysis session is applied when the user who started the session
\* sends it, and is answered 403 and changes no session when any other user
\* sends it.
C13_OwnerModifiesSession ==
  [][(resp' # resp /\ resp'.user # 0
        /\ resp'.route \in {"gesture-analysis/violation", "gesture-analysis/complete"}
        /\ resp'.valid /\ resp'.owner # 0) =>
       IF resp'.user = resp'.owner
       THEN /\ resp'.status = 200
            /\ resp'.route = "gesture-analysis/violation" =>
                 sessions'[resp'.id].violations = sessions[resp'.id].violations + 1
            /\ resp'.route = "gesture-analysis/complete" =>
                 sessions'[resp'.id].status = "completed" /\ sessions'[resp'.id].scored
       ELSE resp'.status = 403 /\ sessions' = sessions]_vars

(***************************************************************************)
(* Properties of login.                                                    *)
(***************************************************************************)

\* C14: when a reset-password request succeeds for an account with new
\* password p, a login with the account's email, its role and p succeeds from
\* then on, and a login with the previous password fails.
C14_LoginAfterReset ==
  [][(resp' # resp /\ resp'.route = "reset-password" /\ resp'.status = 200) =>
       LET id == resp'.user
           previous == acct[id].password.plain
       IN /\ loginCheck(acct', acct[id].email, resp'.newPassword, acct[id].role).status = 200
          /\ previous # resp'.newPassword =>
               loginCheck(acct', acct[id].email, previous, acct[id].role).status # 200]_vars

\* C15: a login succeeds only for an active account with the given email in
\* the collection of the requested userType whose password matches; the token
\* it issues carries that account's _id and collection; any other login issues
\* no token.
C15_LoginOnlyForActiveAccountOfRole ==
  [][(resp' # resp /\ resp'.route = "login") =>
       IF resp'.status = 200
       THEN /\ \E id \in Ids :
                 /\ acct[id].role = resp'.userType
                 /\ acct[id].email = resp'.email
                 /\ acct[id].isActive
                 /\ comparePassword(acct[id].password, resp'.password)
                 /\ resp'.token.userId = id
                 /\ resp'.token.role = acct[id].role
            /\ resp'.token \in tokens'
       ELSE tokens' = tokens]_vars

\* a login with the right password for a deactivated account was refused
C15_Witness ==
  /\ resp.route = "login"
  /\ resp.status = 401
  /\ \E id \in Ids :
       /\ acct[id].role = resp.userType
       /\ acct[id].email = resp.email
       /\ comparePassword(acct[id].password, resp.password)
       /\ ~acct[id].isActive

(***************************************************************************)
(* Properties of the nearby assessments.                                   *)
(***************************************************************************)

\* C16: every assessment in a response of GET /api/assessments/nearby has
\* verification status verified or pending; a rejected or flagged assessment
\* is in no response, whatever the coordinates, the radius and the filters.
C16_NearbyAssessmentsVerifiedOrPending ==
  resp.route = "assessments/nearby" =>
    \A e \in resp.assessments :
      /\ e.doc.verificationStatus \in {"verified", "pending"}
      /\ e.doc.verificationStatus \notin {"rejected", "flagged"}

\* a response that lists an assessment while a rejected or flagged one lies
\* within the radius of the same request
C16_Witness ==
  /\ resp.route = "assessments/nearby"
  /\ resp.status = 200
  /\ resp.assessments # {}
  /\ \E i \in AssessmentIds :
       /\ assessments[i].exists
       /\ assessments[i].verificationStatus \in {"rejected", "flagged"}
       /\ Abs(assessments[i].position - resp.position) <= resp.radius

====
